---- MODULE Spec2Model ----
(***************************************************************************)
(* Model of url_extractor_program.py: the URLExtractor class (pattern      *)
(* catalog, categorize_url, extract_urls, process_source, the exporters    *)
(* and print_summary) and main().                                          *)
(*                                                                         *)
(* A Python string is a sequence of one-character strings, so that the     *)
(* regular expressions are modelled by what they match, character by       *)
(* character.  A Python tuple (url, url_type, category) is the TLA+ tuple  *)
(* <<url, url_type, category>>; a dict is a function on its key set.       *)
(***************************************************************************)
EXTENDS Integers, Sequences, FiniteSets, TLC

VARIABLES
    pc,             \* where the caller is: an idle extractor, a finished call, or a step of main()
    html_content,   \* extract_urls: its argument
    extracted_urls, \* extract_urls: the list built by the three passes (line 127)
    unique_urls,    \* extract_urls: the list returned (line 161)
    url,            \* categorize_url: its argument
    category,       \* categorize_url: the value returned
    sources,        \* main: the list load_sources_from_file returned
    retrieved,      \* per processed source, what the retrieval step did (ok) and handed back (text)
    extract_calls,  \* the arguments extract_urls was called with by process_source, in order
    results,        \* main: the list of process_source results
    summary,        \* what print_summary printed
    timestamp,      \* main: the timestamp of the output filenames
    files           \* the files written under BASE_DIR: path -> contents

vars == <<pc, html_content, extracted_urls, unique_urls, url, category, sources,
          retrieved, extract_calls, results, summary, timestamp, files>>

(***************************************************************************)
(* Bounds of the model.                                                    *)
(***************************************************************************)
\* The number of markup pieces a drawn content string is made of.
MaxPieces == 2
\* The number of lines of sources.txt.
MaxSources == 2

(***************************************************************************)
(* Characters and strings.                                                 *)
(***************************************************************************)
UpperChars == <<"A", "B", "C", "D", "E", "F", "G", "H", "I", "J", "K", "L", "M",
                "N", "O", "P", "Q", "R", "S", "T", "U", "V", "W", "X", "Y", "Z">>
LowerChars == <<"a", "b", "c", "d", "e", "f", "g", "h", "i", "j", "k", "l", "m",
                "n", "o", "p", "q", "r", "s", "t", "u", "v", "w", "x", "y", "z">>

\* re.IGNORECASE compares letters by their lower case.
UpperSet == {UpperChars[i] : i \in 1..Len(UpperChars)}
LowerOf == [c \in UpperSet |-> LowerChars[CHOOSE i \in 1..Len(UpperChars) : UpperChars[i] = c]]
Lower(c) == IF c \in UpperSet THEN LowerOf[c] ELSE c

\* \s of a str pattern (the ASCII part of it).
IsSpace(c) == c \in {" ", "\t", "\n", "\r", "\f"}

\* ['\"]
IsQuote(c) == c \in {"'", "\""}

\* [^'\"\s>]
UrlChar(c) == ~IsQuote(c) /\ ~IsSpace(c) /\ c # ">"

\* s[p:].startswith(t), positions counted from 1.
StartsWithAt(s, p, t) ==
    /\ p >= 1
    /\ p + Len(t) - 1 <= Len(s)
    /\ \A i \in 1..Len(t) : s[p + i - 1] = t[i]

\* The same, ignoring case; t is in lower case.
IStartsWithAt(s, p, t) ==
    /\ p >= 1
    /\ p + Len(t) - 1 <= Len(s)
    /\ \A i \in 1..Len(t) : Lower(s[p + i - 1]) = t[i]

\* str.startswith with a tuple of prefixes (line 152).
startswith(s, prefixes) == \E k \in 1..Len(prefixes) : StartsWithAt(s, 1, prefixes[k])

\* Where a greedy \s* that starts at p stops.
RECURSIVE SkipSpaces(_, _)
SkipSpaces(s, p) ==
    IF p <= Len(s) /\ IsSpace(s[p]) THEN SkipSpaces(s, p + 1) ELSE p

\* Where a greedy [^'\"\s>]* that starts at p stops.
RECURSIVE RunEnd(_, _)
RunEnd(s, p) ==
    IF p <= Len(s) /\ UrlChar(s[p]) THEN RunEnd(s, p + 1) ELSE p

\* re.search(t, s) for a literal t; ignoring case when ci.
Contains(s, t, ci) ==
    \E i \in 1..Len(s) : IF ci THEN IStartsWithAt(s, i, t) ELSE StartsWithAt(s, i, t)

(***************************************************************************)
(* The pattern catalog (URLExtractor.__init__).                            *)
(***************************************************************************)
\* (?:href|src), ignoring case: the length of the attribute name at p, 0 when none.
AttrNameLen(s, p) ==
    IF IStartsWithAt(s, p, <<"h", "r", "e", "f">>) THEN 4
    ELSE IF IStartsWithAt(s, p, <<"s", "r", "c">>) THEN 3
    ELSE 0

\* (?:https?|ftp):// at p, ignoring case: its length, 0 when it does not match.
url_with_protocol_prefix(s, p) ==
    IF IStartsWithAt(s, p, <<"h", "t", "t", "p", "s", ":", "/", "/">>) THEN 8
    ELSE IF IStartsWithAt(s, p, <<"h", "t", "t", "p", ":", "/", "/">>) THEN 7
    ELSE IF IStartsWithAt(s, p, <<"f", "t", "p", ":", "/", "/">>) THEN 6
    ELSE 0

\* // at p.
protocol_relative_prefix(s, p) == IF StartsWithAt(s, p, <<"/", "/">>) THEN 2 ELSE 0

\* A variant that takes any first character for the leading / .
any_value_prefix(s, p) == IF p <= Len(s) /\ UrlChar(s[p]) THEN 1 ELSE 0

\* / at p.
absolute_path_prefix(s, p) == IF StartsWithAt(s, p, <<"/">>) THEN 1 ELSE 0

\* What the captured group must begin with, per pattern.
BodyPrefix(pattern, s, p) ==
    CASE pattern = "url_with_protocol" -> url_with_protocol_prefix(s, p)
      [] pattern = "protocol_relative" -> protocol_relative_prefix(s, p)
      [] pattern = "absolute_path" -> absolute_path_prefix(s, p)

NoMatch == [ok |-> FALSE, group1 |-> <<>>, end |-> 0]

\* A variant whose closing quote must be the quote that opened the value.
MatchAtSameQuote(pattern, s, p) ==
    LET n == AttrNameLen(s, p)
        eq == SkipSpaces(s, p + n)
        q == SkipSpaces(s, eq + 1)
        b == SkipSpaces(s, q + 1)
        k == BodyPrefix(pattern, s, b)
        e == RunEnd(s, b + k)
    IN  IF /\ n > 0
           /\ eq <= Len(s) /\ s[eq] = "="
           /\ q <= Len(s) /\ IsQuote(s[q])
           /\ k > 0
           /\ e > b + k
           /\ e <= Len(s) /\ s[e] = s[q]
        THEN [ok |-> TRUE, group1 |-> SubSeq(s, b, e - 1), end |-> e + 1]
        ELSE NoMatch

\* pattern.match at position p:
\*   (?:href|src) \s* = \s* ['\"] \s* ( <prefix> [^'\"\s>]+ ) ['\"]
\* Every repetition is followed by a character outside its class, so the greedy
\* match is the only one. The quote that closes is any quote, as in the pattern.
MatchAt(pattern, s, p) ==
    LET n == AttrNameLen(s, p)
        eq == SkipSpaces(s, p + n)
        q == SkipSpaces(s, eq + 1)
        b == SkipSpaces(s, q + 1)
        k == BodyPrefix(pattern, s, b)
        e == RunEnd(s, b + k)
    IN  IF /\ n > 0
           /\ eq <= Len(s) /\ s[eq] = "="
           /\ q <= Len(s) /\ IsQuote(s[q])
           /\ k > 0
           /\ e > b + k
           /\ e <= Len(s) /\ IsQuote(s[e])
        THEN [ok |-> TRUE, group1 |-> SubSeq(s, b, e - 1), end |-> e + 1]
        ELSE NoMatch

\* [m.group(1) for m in pattern.finditer(s)], scanning from position p: the
\* leftmost match, then on from where it ended.
RECURSIVE FindAll(_, _, _)
FindAll(pattern, s, p) ==
    IF p > Len(s) THEN <<>>
    ELSE LET m == MatchAt(pattern, s, p)
         IN  IF m.ok THEN <<m.group1>> \o FindAll(pattern, s, m.end)
             ELSE FindAll(pattern, s, p + 1)

\* $ : at the end of the string, or before a newline that ends it.
AtEnd(s, j) == j = Len(s) + 1 \/ (j = Len(s) /\ s[j] = "\n")

\* A variant of the tail that takes a #fragment as it takes a ?query.
QueryOrFragmentTail(s, j) ==
    \/ AtEnd(s, j)
    \/ /\ j <= Len(s)
       /\ s[j] \in {"?", "#"}
       /\ \E e \in (j + 1)..(Len(s) + 1) :
            AtEnd(s, e) /\ \A x \in (j + 1)..(e - 1) : s[x] # "\n"

\* (?:\?.*)?$ at position j ( . takes no newline).
QueryTail(s, j) ==
    \/ AtEnd(s, j)
    \/ /\ j <= Len(s)
       /\ s[j] = "?"
       /\ \E e \in (j + 1)..(Len(s) + 1) :
            AtEnd(s, e) /\ \A x \in (j + 1)..(e - 1) : s[x] # "\n"

\* re.compile(r'\.(e1|e2|...)(?:\?.*)?$', re.IGNORECASE).search(s)
ExtensionSearch(exts, s) ==
    \E i \in 1..Len(s) :
        /\ s[i] = "."
        /\ \E k \in 1..Len(exts) :
            /\ IStartsWithAt(s, i + 1, exts[k])
            /\ QueryTail(s, i + 1 + Len(exts[k]))

image_extensions ==
    << <<"j", "p", "g">>, <<"j", "p", "e", "g">>, <<"p", "n", "g">>, <<"g", "i", "f">>,
       <<"b", "m", "p">>, <<"s", "v", "g">>, <<"w", "e", "b", "p">>, <<"i", "c", "o">> >>
video_extensions ==
    << <<"m", "p", "4">>, <<"a", "v", "i">>, <<"m", "o", "v">>, <<"w", "m", "v">>,
       <<"f", "l", "v">>, <<"w", "e", "b", "m">>, <<"m", "k", "v">> >>
audio_extensions ==
    << <<"m", "p", "3">>, <<"w", "a", "v">>, <<"o", "g", "g">>, <<"f", "l", "a", "c">>,
       <<"a", "a", "c">>, <<"m", "4", "a">> >>
document_extensions ==
    << <<"p", "d", "f">>, <<"d", "o", "c">>, <<"d", "o", "c", "x">>, <<"x", "l", "s">>,
       <<"x", "l", "s", "x">>, <<"p", "p", "t">>, <<"p", "p", "t", "x">>, <<"t", "x", "t">>,
       <<"c", "s", "v">> >>
script_extensions == << <<"j", "s">>, <<"c", "s", "s">> >>
archive_extensions ==
    << <<"z", "i", "p">>, <<"r", "a", "r">>, <<"t", "a", "r">>, <<"g", "z">>, <<"7", "z">> >>

(***************************************************************************)
(* categorize_url                                                          *)
(***************************************************************************)
Categories ==
    {"Image", "Video", "Audio", "Document", "Script/Style", "Archive",
     "Anchor Link", "Email Link", "Phone Link", "Webpage"}

\* The rules of categorize_url in the order of its if/elif chain.
NumRules == 9

RuleCategory(i) ==
    CASE i = 1 -> "Image"
      [] i = 2 -> "Video"
      [] i = 3 -> "Audio"
      [] i = 4 -> "Document"
      [] i = 5 -> "Script/Style"
      [] i = 6 -> "Archive"
      [] i = 7 -> "Anchor Link"
      [] i = 8 -> "Email Link"
      [] i = 9 -> "Phone Link"

RuleMatches(i, u) ==
    CASE i = 1 -> ExtensionSearch(image_extensions, u)
      [] i = 2 -> ExtensionSearch(video_extensions, u)
      [] i = 3 -> ExtensionSearch(audio_extensions, u)
      [] i = 4 -> ExtensionSearch(document_extensions, u)
      [] i = 5 -> ExtensionSearch(script_extensions, u)
      [] i = 6 -> ExtensionSearch(archive_extensions, u)
      [] i = 7 -> Contains(u, <<"#">>, FALSE)
      [] i = 8 -> Contains(u, <<"m", "a", "i", "l", "t", "o", ":">>, TRUE)
      [] i = 9 -> Contains(u, <<"t", "e", "l", ":">>, TRUE)

\* A variant that tests for the special link types before the file extensions.
categorize_url_special_first(u) ==
    IF Contains(u, <<"#">>, FALSE) THEN "Anchor Link"
    ELSE IF Contains(u, <<"m", "a", "i", "l", "t", "o", ":">>, TRUE) THEN "Email Link"
    ELSE IF Contains(u, <<"t", "e", "l", ":">>, TRUE) THEN "Phone Link"
    ELSE IF ExtensionSearch(image_extensions, u) THEN "Image"
    ELSE IF ExtensionSearch(video_extensions, u) THEN "Video"
    ELSE IF ExtensionSearch(audio_extensions, u) THEN "Audio"
    ELSE IF ExtensionSearch(document_extensions, u) THEN "Document"
    ELSE IF ExtensionSearch(script_extensions, u) THEN "Script/Style"
    ELSE IF ExtensionSearch(archive_extensions, u) THEN "Archive"
    ELSE "Webpage"

categorize_url(u) ==
    IF ExtensionSearch(image_extensions, u) THEN "Image"
    ELSE IF ExtensionSearch(video_extensions, u) THEN "Video"
    ELSE IF ExtensionSearch(audio_extensions, u) THEN "Audio"
    ELSE IF ExtensionSearch(document_extensions, u) THEN "Document"
    ELSE IF ExtensionSearch(script_extensions, u) THEN "Script/Style"
    ELSE IF ExtensionSearch(archive_extensions, u) THEN "Archive"
    ELSE IF Contains(u, <<"#">>, FALSE) THEN "Anchor Link"
    ELSE IF Contains(u, <<"m", "a", "i", "l", "t", "o", ":">>, TRUE) THEN "Email Link"
    ELSE IF Contains(u, <<"t", "e", "l", ":">>, TRUE) THEN "Phone Link"
    ELSE "Webpage"

(***************************************************************************)
(* extract_urls                                                            *)
(***************************************************************************)
\* One tuple per match of a pattern, in scan order.
Candidates(pattern, url_type, s) ==
    LET ms == FindAll(pattern, s, 1)
    IN  [i \in 1..Len(ms) |-> <<ms[i], url_type, categorize_url(ms[i])>>]

SchemePrefixes ==
    << <<"h", "t", "t", "p", ":", "/", "/">>, <<"h", "t", "t", "p", "s", ":", "/", "/">>,
       <<"f", "t", "p", ":", "/", "/">>, <<"/", "/">> >>

\* A variant of the third pass without the startswith test.
AbsolutePathCandidatesUnguarded(s) == Candidates("absolute_path", "Absolute Path", s)

\* The third pass: the matches that do not start with a scheme or with // .
AbsolutePathCandidates(s) ==
    SelectSeq(Candidates("absolute_path", "Absolute Path", s),
              LAMBDA t : ~startswith(t[1], SchemePrefixes))

\* extracted_urls when the three passes are over.
ThreePasses(s) ==
    Candidates("url_with_protocol", "Complete URL", s)
        \o Candidates("protocol_relative", "Protocol-Relative", s)
        \o AbsolutePathCandidates(s)

\* The loop of lines 159-168 from index i on, with the set seen and the list built so far.
RECURSIVE UniqueLoop(_, _, _, _)
UniqueLoop(tuples, i, seen, unique) ==
    IF i > Len(tuples) THEN unique
    ELSE IF tuples[i][1] \notin seen
         THEN UniqueLoop(tuples, i + 1, seen \cup {tuples[i][1]}, Append(unique, tuples[i]))
         ELSE UniqueLoop(tuples, i + 1, seen, unique)

\* A variant that keeps the last tuple of each URL, scanning from the end.
RECURSIVE UniqueLoopKeepLast(_, _, _, _)
UniqueLoopKeepLast(tuples, i, seen, unique) ==
    IF i < 1 THEN unique
    ELSE IF tuples[i][1] \notin seen
         THEN UniqueLoopKeepLast(tuples, i - 1, seen \cup {tuples[i][1]}, <<tuples[i]>> \o unique)
         ELSE UniqueLoopKeepLast(tuples, i - 1, seen, unique)

RemoveDuplicatesKeepLast(tuples) == UniqueLoopKeepLast(tuples, Len(tuples), {}, <<>>)

\* Lines 157-168: the first tuple of each URL, in order.
RemoveDuplicates(tuples) == UniqueLoop(tuples, 1, {}, <<>>)

extract_urls(s) == RemoveDuplicates(ThreePasses(s))

(***************************************************************************)
(* process_source and the retrieval step                                   *)
(***************************************************************************)
None == "None"

FailedToRetrieve == "Failed to retrieve content"

EmptyDict == [k \in {} |-> 0]

\* fetch_html_from_url / read_html_file: the text on success, "" on an exception.
RetrievedContent(outcome) == IF outcome.ok THEN outcome.text ELSE <<>>

\* Lines 200-204: the tally of the categories of the tuples.
CategoryCounts(urls) ==
    [c \in {urls[i][3] : i \in 1..Len(urls)} |->
        Cardinality({i \in 1..Len(urls) : urls[i][3] = c})]

\* The dictionary of lines 189-195.
FailureResult(source) ==
    [filename |-> source, total_urls |-> 0, urls |-> <<>>,
     category_counts |-> EmptyDict, error |-> FailedToRetrieve]

\* The dictionary of lines 207-213.
SuccessResult(source, urls) ==
    [filename |-> source, total_urls |-> Len(urls), urls |-> urls,
     category_counts |-> CategoryCounts(urls), error |-> None]

\* A variant that reports a failure only when the retrieval step itself failed.
process_source_on_exception(source, outcome) ==
    IF ~outcome.ok
    THEN [result |-> FailureResult(source), extracted |-> <<>>]
    ELSE [result |-> SuccessResult(source, extract_urls(outcome.text)),
          extracted |-> <<outcome.text>>]

\* process_source, given what the retrieval step did: the dictionary returned, and
\* the arguments of the calls of extract_urls it made.
process_source(source, outcome) ==
    LET content == RetrievedContent(outcome)
    IN  IF content = <<>>
        THEN [result |-> FailureResult(source), extracted |-> <<>>]
        ELSE [result |-> SuccessResult(source, extract_urls(content)),
              extracted |-> <<content>>]

(***************************************************************************)
(* The exporters and print_summary                                         *)
(***************************************************************************)
BASE_DIR == "./results"

\* Lines 220-231 and 249-257: one row per tuple, source after source.
RECURSIVE FlatRows(_)
FlatRows(rs) ==
    IF rs = <<>> THEN <<>>
    ELSE [i \in 1..Len(Head(rs).urls) |->
            [Source |-> Head(rs).filename, URL |-> Head(rs).urls[i][1],
             URLType |-> Head(rs).urls[i][2], Category |-> Head(rs).urls[i][3]]]
         \o FlatRows(Tail(rs))

\* Lines 271-273.
AllCategories(rs) == UNION {DOMAIN rs[i].category_counts : i \in 1..Len(rs)}

\* A variant that writes only the categories the source itself has.
SummaryRowOwnCategories(r, rs) ==
    [Source |-> r.filename, TotalURLs |-> r.total_urls, counts |-> r.category_counts]

\* Lines 263-275: the row of one result; counts holds its category columns.
SummaryRow(r, rs) ==
    [Source |-> r.filename, TotalURLs |-> r.total_urls,
     counts |-> [cat \in AllCategories(rs) |->
                    IF cat \in DOMAIN r.category_counts THEN r.category_counts[cat] ELSE 0]]

\* Lines 260-277.
SummaryData(rs) == [i \in 1..Len(rs) |-> SummaryRow(rs[i], rs)]

\* f"{BASE_DIR}/{output_filename}"; a filename is the sequence of its parts.
OutputPath(output_filename) == <<BASE_DIR, "/">> \o output_filename

\* str.replace on a filename whose parts hold old only as a whole part.
replace(name, old, new) == [i \in 1..Len(name) |-> IF name[i] = old THEN new ELSE name[i]]

\* open(path, 'w'): the file system with the file at path (over)written.
WriteFile(fs, path, body) ==
    [p \in DOMAIN fs \cup {path} |-> IF p = path THEN body ELSE fs[p]]

\* export_to_csv: the file system after it.
export_to_csv(fs, rs, output_filename) ==
    WriteFile(fs, OutputPath(output_filename), [format |-> "csv", rows |-> FlatRows(rs)])

\* export_to_excel: the file system after it; raised tells whether the try block
\* raised (the writer's backend failed), which falls back to export_to_csv.
export_to_excel(fs, rs, output_filename, raised) ==
    IF ~raised
    THEN WriteFile(fs, OutputPath(output_filename),
                   [format |-> "xlsx", rows |-> FlatRows(rs), summary |-> SummaryData(rs)])
    ELSE export_to_csv(fs, rs, replace(output_filename, ".xlsx", ".csv"))

RECURSIVE SumTotals(_)
SumTotals(rs) == IF rs = <<>> THEN 0 ELSE Head(rs).total_urls + SumTotals(Tail(rs))

\* sorted() over the category names.
SortedCategories ==
    <<"Anchor Link", "Archive", "Audio", "Document", "Email Link", "Image",
      "Phone Link", "Script/Style", "Video", "Webpage">>

\* A variant that lists only the sources that found URLs.
print_summary_nonempty(rs) ==
    LET found == SelectSeq(rs, LAMBDA r : r.total_urls > 0)
    IN  [sources_processed |-> Len(found),
         total_urls |-> SumTotals(found),
         breakdown |-> [i \in 1..Len(found) |->
            [filename |-> found[i].filename, total_urls |-> found[i].total_urls,
             categories |-> SelectSeq(SortedCategories,
                                      LAMBDA c : c \in DOMAIN found[i].category_counts)]]]

\* print_summary: what it prints.
print_summary(rs) ==
    [sources_processed |-> Len(rs),
     total_urls |-> SumTotals(rs),
     breakdown |-> [i \in 1..Len(rs) |->
        [filename |-> rs[i].filename, total_urls |-> rs[i].total_urls,
         categories |-> SelectSeq(SortedCategories,
                                  LAMBDA c : c \in DOMAIN rs[i].category_counts)]]]

(***************************************************************************)
(* The inputs the model draws                                              *)
(***************************************************************************)
\* '<a href="https://example.com/a.pdf">x</a>'
PieceCompletePdf ==
    <<"<", "a", " ", "h", "r", "e", "f", "=", "\"", "h", "t", "t", "p", "s", ":", "/", "/",
      "e", "x", "a", "m", "p", "l", "e", ".", "c", "o", "m", "/", "a", ".", "p", "d", "f",
      "\"", ">", "x", "<", "/", "a", ">">>

\* '<img src="//cdn.example.com/pic.jpg">'
PieceProtocolRelativeJpg ==
    <<"<", "i", "m", "g", " ", "s", "r", "c", "=", "\"", "/", "/", "c", "d", "n", ".", "e",
      "x", "a", "m", "p", "l", "e", ".", "c", "o", "m", "/", "p", "i", "c", ".", "j", "p", "g",
      "\"", ">">>

\* '<link href="/about">'
PieceAbout ==
    <<"<", "l", "i", "n", "k", " ", "h", "r", "e", "f", "=", "\"", "/", "a", "b", "o", "u",
      "t", "\"", ">">>

\* '<a href="/img/photo.jpg#frag">'
PieceJpgFragment ==
    <<"<", "a", " ", "h", "r", "e", "f", "=", "\"", "/", "i", "m", "g", "/", "p", "h", "o",
      "t", "o", ".", "j", "p", "g", "#", "f", "r", "a", "g", "\"", ">">>

\* '<a href="mailto:test@x.com">mail</a>'
PieceMailto ==
    <<"<", "a", " ", "h", "r", "e", "f", "=", "\"", "m", "a", "i", "l", "t", "o", ":", "t",
      "e", "s", "t", "@", "x", ".", "c", "o", "m", "\"", ">", "m", "a", "i", "l", "<", "/",
      "a", ">">>

\* '<a href="/a\'>'
PieceMixedQuoteAbsolute ==
    <<"<", "a", " ", "h", "r", "e", "f", "=", "\"", "/", "a", "'", ">">>

\* "<A HREF = '/about' >"
PieceAboutAgain ==
    <<"<", "A", " ", "H", "R", "E", "F", " ", "=", " ", "'", "/", "a", "b", "o", "u", "t", "'",
      " ", ">">>

\* '<a href="//">'
PieceSlashSlash ==
    <<"<", "a", " ", "h", "r", "e", "f", "=", "\"", "/", "/", "\"", ">">>

\* '<img src=\'//cdn.example.com/pic.jpg">'
PieceMixedQuoteRelative ==
    <<"<", "i", "m", "g", " ", "s", "r", "c", "=", "'", "/", "/", "c", "d", "n", ".", "e", "x",
      "a", "m", "p", "l", "e", ".", "c", "o", "m", "/", "p", "i", "c", ".", "j", "p", "g",
      "\"", ">">>

\* '<a href=\'FTP://h/v.mp4?x#y">'
PieceMixedQuoteComplete ==
    <<"<", "a", " ", "h", "r", "e", "f", "=", "'", "F", "T", "P", ":", "/", "/", "h", "/", "v",
      ".", "m", "p", "4", "?", "x", "#", "y", "\"", ">">>

\* '<a href="/a b">'
PieceSpaceInValue ==
    <<"<", "a", " ", "h", "r", "e", "f", "=", "\"", "/", "a", " ", "b", "\"", ">">>

\* 'https://example.com/a.pdf'
UrlCompletePdf ==
    <<"h", "t", "t", "p", "s", ":", "/", "/", "e", "x", "a", "m", "p", "l", "e", ".", "c", "o",
      "m", "/", "a", ".", "p", "d", "f">>

\* '//cdn.example.com/pic.jpg'
UrlProtocolRelativeJpg ==
    <<"/", "/", "c", "d", "n", ".", "e", "x", "a", "m", "p", "l", "e", ".", "c", "o", "m", "/",
      "p", "i", "c", ".", "j", "p", "g">>

\* '/about'
UrlAbout ==
    <<"/", "a", "b", "o", "u", "t">>

\* '/img/photo.jpg#frag'
UrlJpgFragment ==
    <<"/", "i", "m", "g", "/", "p", "h", "o", "t", "o", ".", "j", "p", "g", "#", "f", "r", "a",
      "g">>

\* 'file.pdf#page=2'
UrlPdfFragment ==
    <<"f", "i", "l", "e", ".", "p", "d", "f", "#", "p", "a", "g", "e", "=", "2">>

\* 'mailto:test@x.com'
UrlMailto ==
    <<"m", "a", "i", "l", "t", "o", ":", "t", "e", "s", "t", "@", "x", ".", "c", "o", "m">>

\* '/a'
UrlA ==
    <<"/", "a">>

\* 'FTP://h/v.mp4?x#y'
UrlFtpVideo ==
    <<"F", "T", "P", ":", "/", "/", "h", "/", "v", ".", "m", "p", "4", "?", "x", "#", "y">>

\* '<a href="/a">'
PieceAbsoluteA ==
    <<"<", "a", " ", "h", "r", "e", "f", "=", "\"", "/", "a", "\"", ">">>

\* '<p>no links</p>'
ContentNoLinks ==
    <<"<", "p", ">", "n", "o", " ", "l", "i", "n", "k", "s", "<", "/", "p", ">">>

\* '<img src="/a.png"><img src="/b.gif"><a href="/about">'
ContentTwoImagesOnePage ==
    <<"<", "i", "m", "g", " ", "s", "r", "c", "=", "\"", "/", "a", ".", "p", "n", "g", "\"",
      ">", "<", "i", "m", "g", " ", "s", "r", "c", "=", "\"", "/", "b", ".", "g", "i", "f",
      "\"", ">", "<", "a", " ", "h", "r", "e", "f", "=", "\"", "/", "a", "b", "o", "u", "t",
      "\"", ">">>

\* '<video src="//v.example/m.mp4">'
ContentOneVideo ==
    <<"<", "v", "i", "d", "e", "o", " ", "s", "r", "c", "=", "\"", "/", "/", "v", ".", "e",
      "x", "a", "m", "p", "l", "e", "/", "m", ".", "m", "p", "4", "\"", ">">>

\* '/a'
StemPath ==
    <<"/", "a">>

\* '/x#y'
StemAnchor ==
    <<"/", "x", "#", "y">>

\* 'MailTo:a@b/c'
StemMailto ==
    <<"M", "a", "i", "l", "T", "o", ":", "a", "@", "b", "/", "c">>

\* '/TEL:1/t'
StemTel ==
    <<"/", "T", "E", "L", ":", "1", "/", "t">>

\* 'file'
StemPlain ==
    <<"f", "i", "l", "e">>

\* '.jpg'
ExtJpg ==
    <<".", "j", "p", "g">>

\* '.MP4'
ExtMp4 ==
    <<".", "M", "P", "4">>

\* '.ogg'
ExtOgg ==
    <<".", "o", "g", "g">>

\* '.pdf'
ExtPdf ==
    <<".", "p", "d", "f">>

\* '.css'
ExtCss ==
    <<".", "c", "s", "s">>

\* '.gz'
ExtGz ==
    <<".", "g", "z">>

\* '.jpeg'
ExtJpeg ==
    <<".", "j", "p", "e", "g">>

\* '.jpg.zip'
ExtJpgZip ==
    <<".", "j", "p", "g", ".", "z", "i", "p">>

\* '.zip.jpg'
ExtZipJpg ==
    <<".", "z", "i", "p", ".", "j", "p", "g">>

\* '.pdfx'
ExtPdfx ==
    <<".", "p", "d", "f", "x">>

\* '?v=1'
TailQuery ==
    <<"?", "v", "=", "1">>

\* '#frag'
TailFragment ==
    <<"#", "f", "r", "a", "g">>

\* '?q#f'
TailQueryFragment ==
    <<"?", "q", "#", "f">>

\* '\n'
TailNewline ==
    <<"\n">>

\* '?a\nb'
TailQueryNewline ==
    <<"?", "a", "\n", "b">>

\* '/'
TailSlash ==
    <<"/">>

\* '/img/photo.jpg?v=1#frag'
UrlJpgQueryFragment ==
    <<"/", "i", "m", "g", "/", "p", "h", "o", "t", "o", ".", "j", "p", "g", "?", "v", "=", "1",
      "#", "f", "r", "a", "g">>

Pieces ==
    <<PieceCompletePdf, PieceProtocolRelativeJpg, PieceAbout, PieceJpgFragment,
      PieceMailto, PieceMixedQuoteAbsolute, PieceAboutAgain, PieceSlashSlash,
      PieceMixedQuoteRelative, PieceMixedQuoteComplete, PieceSpaceInValue>>

RECURSIVE Concat(_)
Concat(ss) == IF ss = <<>> THEN <<>> ELSE Head(ss) \o Concat(Tail(ss))

\* The scenario of the three kinds in one document, and one in which a path is
\* repeated after another path and a complete URL.
ScenarioThreeKinds == Concat(<<PieceCompletePdf, PieceProtocolRelativeJpg, PieceAbout>>)
ScenarioRepeat == Concat(<<PieceAbout, PieceAbsoluteA, PieceCompletePdf, PieceAboutAgain>>)

\* Content strings: up to MaxPieces pieces in a row, and the scenarios.
Contents ==
    {Concat([i \in 1..Len(ix) |-> Pieces[ix[i]]]) :
        ix \in UNION {[1..m -> 1..Len(Pieces)] : m \in 0..MaxPieces}}
        \cup {ScenarioThreeKinds, ScenarioRepeat}

Stems == {StemPath, StemAnchor, StemMailto, StemTel, StemPlain}
Extensions ==
    {<<>>, ExtJpg, ExtMp4, ExtOgg, ExtPdf, ExtCss, ExtGz, ExtJpeg, ExtJpgZip, ExtZipJpg, ExtPdfx}
Tails == {<<>>, TailQuery, TailFragment, TailQueryFragment, TailNewline, TailQueryNewline, TailSlash}

\* Reference strings: a stem, an extension and a tail, and the named examples.
RefStrings ==
    {s \o e \o t : s \in Stems, e \in Extensions, t \in Tails}
        \cup {UrlPdfFragment, UrlMailto, UrlJpgFragment, UrlJpgQueryFragment}

SourceIds == {"https://example.com/", "page.html"}

\* The lists of sources of sources.txt.
SourceLists == UNION {[1..n -> SourceIds] : n \in 0..MaxSources}

\* What a source's document may hold.
Documents == {<<>>, ContentNoLinks, ContentTwoImagesOnePage, ContentOneVideo, ScenarioRepeat}

\* What the retrieval step may do: hand back a document, or fail.
Outcomes == {[ok |-> TRUE, text |-> d] : d \in Documents} \cup {[ok |-> FALSE, text |-> <<>>]}

Timestamps == {"20261102_124400"}

(***************************************************************************)
(* The state machine                                                       *)
(***************************************************************************)
Init ==
    /\ pc = "idle"
    /\ html_content = <<>>
    /\ extracted_urls = <<>>
    /\ unique_urls = <<>>
    /\ url = <<>>
    /\ category = None
    /\ sources = <<>>
    /\ retrieved = <<>>
    /\ extract_calls = <<>>
    /\ results = <<>>
    /\ summary = None
    /\ timestamp = None
    /\ files = EmptyDict

mainVars == <<sources, retrieved, extract_calls, results, summary, timestamp, files>>

\* A call of extract_urls on a content string.
ExtractUrls ==
    /\ pc = "idle"
    /\ \E c \in Contents :
        LET tuples == ThreePasses(c)
        IN  /\ html_content' = c
            /\ extracted_urls' = tuples
            /\ unique_urls' = RemoveDuplicates(tuples)
    /\ pc' = "extracted"
    /\ UNCHANGED <<url, category, mainVars>>

\* A call of categorize_url on a reference string.
CategorizeUrl ==
    /\ pc = "idle"
    /\ \E u \in RefStrings :
        /\ url' = u
        /\ category' = categorize_url(u)
    /\ pc' = "categorized"
    /\ UNCHANGED <<html_content, extracted_urls, unique_urls, mainVars>>

\* main, line 339: load_sources_from_file.
LoadSources ==
    /\ pc = "idle"
    /\ sources' \in SourceLists
    /\ pc' = "process"
    /\ UNCHANGED <<html_content, extracted_urls, unique_urls, url, category,
                   retrieved, extract_calls, results, summary, timestamp, files>>

\* main, line 342: process_source on the next source of the list.
ProcessSource ==
    /\ pc = "process"
    /\ Len(results) < Len(sources)
    /\ \E outcome \in Outcomes :
        LET done == process_source(sources[Len(results) + 1], outcome)
        IN  /\ retrieved' = Append(retrieved, outcome)
            /\ results' = Append(results, done.result)
            /\ extract_calls' = extract_calls \o done.extracted
    /\ UNCHANGED <<pc, html_content, extracted_urls, unique_urls, url, category,
                   sources, summary, timestamp, files>>

\* main, lines 345-347: no results, nothing to report.
NoResults ==
    /\ pc = "process"
    /\ Len(results) = Len(sources)
    /\ results = <<>>
    /\ pc' = "done"
    /\ UNCHANGED <<html_content, extracted_urls, unique_urls, url, category, mainVars>>

\* main, line 350: print_summary.
PrintSummary ==
    /\ pc = "process"
    /\ Len(results) = Len(sources)
    /\ results # <<>>
    /\ summary' = print_summary(results)
    /\ pc' = "timestamp"
    /\ UNCHANGED <<html_content, extracted_urls, unique_urls, url, category,
                   sources, retrieved, extract_calls, results, timestamp, files>>

\* main, line 353.
MakeTimestamp ==
    /\ pc = "timestamp"
    /\ timestamp' \in Timestamps
    /\ pc' = "excel"
    /\ UNCHANGED <<html_content, extracted_urls, unique_urls, url, category,
                   sources, retrieved, extract_calls, results, summary, files>>

output_excel == <<"url_extraction_results_", timestamp, ".xlsx">>
output_csv == <<"url_extraction_results_", timestamp, ".csv">>

\* main, line 358: export_to_excel, whose try block may raise.
ExportToExcel ==
    /\ pc = "excel"
    /\ \E raised \in BOOLEAN : files' = export_to_excel(files, results, output_excel, raised)
    /\ pc' = "csv"
    /\ UNCHANGED <<html_content, extracted_urls, unique_urls, url, category,
                   sources, retrieved, extract_calls, results, summary, timestamp>>

\* main, line 363: export_to_csv.
ExportToCsv ==
    /\ pc = "csv"
    /\ files' = export_to_csv(files, results, output_csv)
    /\ pc' = "done"
    /\ UNCHANGED <<html_content, extracted_urls, unique_urls, url, category,
                   sources, retrieved, extract_calls, results, summary, timestamp>>

Next ==
    \/ ExtractUrls
    \/ CategorizeUrl
    \/ LoadSources
    \/ ProcessSource
    \/ NoResults
    \/ PrintSummary
    \/ MakeTimestamp
    \/ ExportToExcel
    \/ ExportToCsv

Spec == Init /\ [][Next]_vars

(***************************************************************************)
(* Properties of extract_urls and categorize_url                           *)
(***************************************************************************)
\* The index of the first tuple of extracted_urls that holds the URL u.
FirstIndex(u) ==
    CHOOSE i \in 1..Len(extracted_urls) :
        /\ extracted_urls[i][1] = u
        /\ \A j \in 1..(i - 1) : extracted_urls[j][1] # u

\* The rank of a reference kind in the order of the three passes.
KindRank(kind) ==
    CASE kind = "Complete URL" -> 1
      [] kind = "Protocol-Relative" -> 2
      [] kind = "Absolute Path" -> 3

\* The URLs of the tuples of extracted_urls of one kind, in order.
UrlsOfKind(kind) ==
    LET sel == SelectSeq(extracted_urls, LAMBDA t : t[2] = kind)
    IN  [i \in 1..Len(sel) |-> sel[i][1]]

\* C1: extract_urls returns the matches of the Complete-URL pass, then those of
\* the Protocol-Relative pass, then those of the Absolute-Path pass, with every
\* later occurrence of a raw string removed: no raw string occurs twice in the
\* result, every matched string is in it, and its entries are the first
\* occurrences, in the order of the three passes.
C1_FirstOccurrencesInPassOrder ==
    pc = "extracted" =>
        /\ \A i, j \in 1..Len(extracted_urls) :
            i < j => KindRank(extracted_urls[i][2]) <= KindRank(extracted_urls[j][2])
        /\ UrlsOfKind("Complete URL") = FindAll("url_with_protocol", html_content, 1)
        /\ UrlsOfKind("Protocol-Relative") = FindAll("protocol_relative", html_content, 1)
        /\ UrlsOfKind("Absolute Path")
                = SelectSeq(FindAll("absolute_path", html_content, 1),
                            LAMBDA u : ~startswith(u, SchemePrefixes))
        /\ html_content = ScenarioThreeKinds =>
                unique_urls = << <<UrlCompletePdf, "Complete URL", "Document">>,
                                 <<UrlProtocolRelativeJpg, "Protocol-Relative", "Image">>,
                                 <<UrlAbout, "Absolute Path", "Webpage">> >>
        /\ \A i, j \in 1..Len(unique_urls) : i # j => unique_urls[i][1] # unique_urls[j][1]
        /\ {unique_urls[k][1] : k \in 1..Len(unique_urls)}
                = {extracted_urls[i][1] : i \in 1..Len(extracted_urls)}
        /\ \A k \in 1..Len(unique_urls) :
            unique_urls[k] = extracted_urls[FirstIndex(unique_urls[k][1])]
        /\ \A k, l \in 1..Len(unique_urls) :
            k < l => FirstIndex(unique_urls[k][1]) < FirstIndex(unique_urls[l][1])

\* A document whose repeated path is emitted once, after the complete URL that
\* follows it in the document.
C1_Witness ==
    /\ pc = "extracted"
    /\ html_content = ScenarioRepeat
    /\ Len(extracted_urls) = 4
    /\ unique_urls = << <<UrlCompletePdf, "Complete URL", "Document">>,
                        <<UrlAbout, "Absolute Path", "Webpage">>,
                        <<UrlA, "Absolute Path", "Webpage">> >>

\* C2: no reference of kind Absolute Path starts with http://, https://, ftp://
\* or //, and no raw string is emitted under more than one kind.
C2_AbsolutePathNeverSchemePrefixed ==
    pc = "extracted" =>
        /\ \A i \in 1..Len(unique_urls) :
            unique_urls[i][2] = "Absolute Path" =>
                \A k \in 1..Len(SchemePrefixes) : ~StartsWithAt(unique_urls[i][1], 1, SchemePrefixes[k])
        /\ \A i, j \in 1..Len(unique_urls) :
            unique_urls[i][1] = unique_urls[j][1] => unique_urls[i][2] = unique_urls[j][2]

\* The value // matches the absolute-path pattern alone, and is not emitted.
C2_Witness ==
    /\ pc = "extracted"
    /\ html_content = PieceSlashSlash \o PieceAbout
    /\ unique_urls = << <<UrlAbout, "Absolute Path", "Webpage">> >>

\* The rules of categorize_url that match the reference u.
MatchingRules(u) == {i \in 1..NumRules : RuleMatches(i, u)}

\* C3: categorize_url returns one of the ten categories: that of the first rule
\* that matches, in the order Image, Video, Audio, Document, Script/Style,
\* Archive, contains #, contains mailto:, contains tel:; Webpage when none does.
C3_FirstMatchingRule ==
    pc = "categorized" =>
        /\ category \in Categories
        /\ category =
            IF MatchingRules(url) = {} THEN "Webpage"
            ELSE RuleCategory(CHOOSE i \in MatchingRules(url) :
                                \A j \in MatchingRules(url) : i <= j)

\* A reference that three rules match: the image suffix, # and mailto: .
C3_Witness ==
    /\ pc = "categorized"
    /\ url = StemMailto \o ExtJpg \o TailQueryFragment
    /\ MatchingRules(url) = {1, 7, 8}
    /\ category = "Image"

AllExtensions ==
    image_extensions \o video_extensions \o audio_extensions
        \o document_extensions \o script_extensions \o archive_extensions

\* A catalogued extension ends right before a # of u, with no ? before that # and
\* no . after it.
ExtensionBeforeFragment(u) ==
    \E i \in 1..Len(u) :
        /\ u[i] = "#"
        /\ \E k \in 1..Len(AllExtensions) :
            LET n == Len(AllExtensions[k])
            IN  /\ i - n - 1 >= 1
                /\ u[i - n - 1] = "."
                /\ IStartsWithAt(u, i - n, AllExtensions[k])
        /\ \A j \in 1..(i - 1) : u[j] # "?"
        /\ \A j \in (i + 1)..Len(u) : u[j] # "."

MixedQuotePieces == {PieceMixedQuoteAbsolute, PieceMixedQuoteRelative, PieceMixedQuoteComplete}

\* C9 as stated: a value opened by one quote character and closed by the other,
\* e.g. href="/a' , yields no reference, under any of the three rules.
C9_MixedQuotesYieldNothing ==
    (pc = "extracted" /\ html_content \in MixedQuotePieces) => unique_urls = <<>>

\* C9 (amended): each of the three rules takes a value opened by either quote
\* character and closed by either, not necessarily the same one: href="/a' yields
\* the reference /a (Absolute Path), and the like for the other two rules.
C9_MixedQuotesYieldTheValue ==
    /\ (pc = "extracted" /\ html_content = PieceMixedQuoteAbsolute) =>
            unique_urls = << <<UrlA, "Absolute Path", "Webpage">> >>
    /\ (pc = "extracted" /\ html_content = PieceMixedQuoteRelative) =>
            unique_urls = << <<UrlProtocolRelativeJpg, "Protocol-Relative", "Image">> >>
    /\ (pc = "extracted" /\ html_content = PieceMixedQuoteComplete) =>
            unique_urls = << <<UrlFtpVideo, "Complete URL", "Video">> >>

C9_Witness ==
    /\ pc = "extracted"
    /\ html_content = PieceMixedQuoteAbsolute
    /\ Len(unique_urls) = 1
    /\ unique_urls[1][1] = UrlA

(***************************************************************************)
(* Properties of process_source, main and the exporters                    *)
(***************************************************************************)
\* print_summary has run.
SummaryPrinted == pc \in {"timestamp", "excel", "csv"} \/ (pc = "done" /\ results # <<>>)

\* The number of tuples of the category c in a result's list.
CountOf(r, c) == Cardinality({k \in 1..Len(r.urls) : r.urls[k][3] = c})

\* The categories found in any of the results.
Vocabulary ==
    UNION {{results[i].urls[k][3] : k \in 1..Len(results[i].urls)} : i \in 1..Len(results)}

\* C6: the category columns of the summary table are the union of the categories
\* counted in any source, and every source's row holds a value for each of
\* them: its own count, 0 where it has none.
C6_SummaryRowsCoverVocabulary ==
    \A path \in DOMAIN files :
        files[path].format = "xlsx" =>
            /\ Len(files[path].summary) = Len(results)
            /\ \A i \in 1..Len(results) :
                LET row == files[path].summary[i]
                IN  /\ row.Source = results[i].filename
                    /\ DOMAIN row.counts = Vocabulary
                    /\ \A c \in Vocabulary : row.counts[c] = CountOf(results[i], c)

\* Source A has 2 Image and 1 Webpage, source B has 1 Video, and A's row says Video = 0.
C6_Witness ==
    \E path \in DOMAIN files :
        /\ files[path].format = "xlsx"
        /\ Len(results) = 2
        /\ retrieved[1].text = ContentTwoImagesOnePage
        /\ retrieved[2].text = ContentOneVideo
        /\ DOMAIN results[1].category_counts = {"Image", "Webpage"}
        /\ DOMAIN files[path].summary[1].counts = {"Image", "Webpage", "Video"}
        /\ files[path].summary[1].counts["Image"] = 2
        /\ files[path].summary[1].counts["Webpage"] = 1
        /\ files[path].summary[1].counts["Video"] = 0
        /\ files[path].summary[2].counts["Video"] = 1

\* The sum of the lengths of the reference lists of the sources whose retrieval
\* succeeded, among the first n.
RECURSIVE RetrievedTotal(_)
RetrievedTotal(n) ==
    IF n = 0 THEN 0
    ELSE RetrievedTotal(n - 1) + (IF retrieved[n].ok THEN Len(results[n].urls) ELSE 0)

\* C7: a source whose content cannot be obtained gets a result with total 0, no
\* references, no category counts and a failure reason; the sources after it are
\* processed all the same; its result stays in the per-source listing at its
\* place in the order of the sources, and adds 0 to the grand total, which is
\* the sum of the per-source totals.
C7_FailedSourceKeptAndCountsZero ==
    /\ Len(retrieved) = Len(results)
    /\ Len(results) <= Len(sources)
    /\ \A i \in 1..Len(results) :
        /\ results[i].filename = sources[i]
        /\ ~retrieved[i].ok =>
            /\ results[i].total_urls = 0
            /\ results[i].urls = <<>>
            /\ DOMAIN results[i].category_counts = {}
            /\ results[i].error # None
    /\ pc \in {"timestamp", "excel", "csv", "done"} => Len(results) = Len(sources)
    /\ SummaryPrinted =>
        /\ summary.sources_processed = Len(sources)
        /\ Len(summary.breakdown) = Len(sources)
        /\ \A i \in 1..Len(sources) :
            /\ summary.breakdown[i].filename = sources[i]
            /\ summary.breakdown[i].total_urls = results[i].total_urls
        /\ summary.total_urls = RetrievedTotal(Len(results))

\* The first source fails, the second is processed and has references.
C7_Witness ==
    /\ pc = "done"
    /\ Len(results) = 2
    /\ ~retrieved[1].ok
    /\ results[1].error = FailedToRetrieve
    /\ retrieved[2].ok
    /\ results[2].total_urls = 3
    /\ summary.breakdown[1] = [filename |-> sources[1], total_urls |-> 0, categories |-> <<>>]
    /\ summary.total_urls = 3

\* C8: when the spreadsheet export fails, export_to_excel writes the flat CSV
\* export under the same filename with .xlsx replaced by .csv, and every source
\* result, also one without references or with a failure reason, is in it.
C8_FallbackKeepsEverySource ==
    (pc = "csv" /\ OutputPath(output_excel) \notin DOMAIN files) =>
        /\ OutputPath(output_csv) \in DOMAIN files
        /\ files[OutputPath(output_csv)].format = "csv"
        /\ \A i \in 1..Len(results) :
            \E k \in 1..Len(files[OutputPath(output_csv)].rows) :
                files[OutputPath(output_csv)].rows[k].Source = results[i].filename

\* The contents process_source passed on to extract_urls: the non-empty ones.
NonEmptyRetrieved ==
    LET texts == [i \in 1..Len(retrieved) |-> RetrievedContent(retrieved[i])]
    IN  SelectSeq(texts, LAMBDA t : t # <<>>)

====
